---------------------------- MODULE Spec2Model ----------------------------
(***************************************************************************)
(* Model of share/IlluminaData.py: the fastq file name codec               *)
(* (IlluminaFastq), the CASAVA sample sheet (CasavaSampleSheet), the       *)
(* conversion of sample sheets to it (get_casava_sample_sheet), the short  *)
(* unique file names (get_unique_fastq_names) and the fastq list of a      *)
(* sample (IlluminaSample.add_fastq).                                      *)
(*                                                                         *)
(* A Python string is modelled as a sequence of one-character strings, so  *)
(* that splitting, stripping, integer conversion and %-formatting are      *)
(* computed character by character as the interpreter computes them.       *)
(***************************************************************************)
EXTENDS Integers, Sequences, FiniteSets, TLC

VARIABLES
    pc,        \* position of the component under study
    gen,       \* codec: the pieces the file name was assembled from
    fastq,     \* codec: the file name handed to IlluminaFastq
    fq,        \* codec: IlluminaFastq(fastq)
    repr,      \* codec: repr(fq)
    fq2,       \* codec: IlluminaFastq(repr(fq))
    sheet,     \* sample sheet: the lines of the CasavaSampleSheet, in order
    old,       \* sample sheet: the lines before the last operation
    result,    \* sample sheet: value returned by the last property read
    nfix,      \* sample sheet: number of fix_duplicated_names calls so far
    src,       \* converter: the pieces the input stream was assembled from
    stream,    \* converter: the lines of the input stream, with their newlines
    reads,     \* converter: number of readline() calls made on the stream
    cur_line,  \* converter: the line last read ('line' of the function)
    experiment_manager_format, \* converter: "unset", "True" or "False"
    fastqs,        \* unique names: the file names handed to get_unique_fastq_names
    name_mapping,  \* unique names: what the call returned or raised
    sample_fastq,  \* sample: the fastq list of the IlluminaSample
    paired_end,    \* sample: its paired_end flag
    added          \* sample: the names handed to add_fastq so far, in call order

vars ==
    <<pc, gen, fastq, fq, repr, fq2, sheet, old, result, nfix,
      src, stream, reads, cur_line, experiment_manager_format,
      fastqs, name_mapping, sample_fastq, paired_end, added>>
codecVars == <<gen, fastq, fq, repr, fq2>>
sheetVars == <<sheet, old, result, nfix>>
convVars == <<src, stream, reads, cur_line, experiment_manager_format>>

uniqueVars == <<fastqs, name_mapping>>
sampleVars == <<sample_fastq, paired_end, added>>

\* get_unique_fastq_names has not been called.
UniqueIdle == fastqs = <<>> /\ name_mapping = <<>>

\* There is no IlluminaSample.
SampleIdle == sample_fastq = <<>> /\ paired_end = FALSE /\ added = <<>>

\* The converter has not been called.
ConvIdle ==
    /\ src = <<>>
    /\ stream = <<>>
    /\ reads = 0
    /\ cur_line = <<>>
    /\ experiment_manager_format = "unset"

---------------------------------------------------------------------------
(* Python string primitives                                                *)

\* Characters removed by str.strip() with no argument.
Whitespace == {" ", "\t", "\n", "\r", "\f"}

DigitChars == <<"0", "1", "2", "3", "4", "5", "6", "7", "8", "9">>

IsDigit(c) == \E i \in 1..10 : DigitChars[i] = c

DigitVal(c) == (CHOOSE i \in 1..10 : DigitChars[i] = c) - 1

\* s.find(c) from position i (1-based); 0 when c does not occur.
RECURSIVE Find(_, _, _)
Find(s, c, i) ==
    IF i > Len(s) THEN 0
    ELSE IF s[i] = c THEN i
    ELSE Find(s, c, i + 1)

\* s.rfind(c) looking down from position i; 0 when c does not occur.
RECURSIVE RFind(_, _, _)
RFind(s, c, i) ==
    IF i < 1 THEN 0
    ELSE IF s[i] = c THEN i
    ELSE RFind(s, c, i - 1)

\* s[i:] for a 0-based Python index i >= 0.
From(s, i) == SubSeq(s, i + 1, Len(s))

\* s.lstrip(chars), s.rstrip(chars), s.strip(chars)
RECURSIVE LStrip(_, _)
LStrip(s, chars) ==
    IF s # <<>> /\ s[1] \in chars THEN LStrip(Tail(s), chars) ELSE s

RECURSIVE RStrip(_, _)
RStrip(s, chars) ==
    IF s # <<>> /\ s[Len(s)] \in chars
    THEN RStrip(SubSeq(s, 1, Len(s) - 1), chars)
    ELSE s

Strip(s, chars) == RStrip(LStrip(s, chars), chars)

\* s.split(sep) for a one-character separator: always at least one field.
RECURSIVE Split(_, _)
Split(s, sep) ==
    LET i == Find(s, sep, 1)
    IN  IF i = 0 THEN <<s>>
        ELSE <<SubSeq(s, 1, i - 1)>> \o Split(From(s, i), sep)

\* sep.join(fields)
RECURSIVE Join(_, _)
Join(fields, sep) ==
    IF fields = <<>> THEN <<>>
    ELSE IF Len(fields) = 1 THEN fields[1]
    ELSE fields[1] \o <<sep>> \o Join(Tail(fields), sep)

\* Value of a non-empty run of decimal digits.
RECURSIVE DigitsVal(_)
DigitsVal(s) ==
    IF s = <<>> THEN 0
    ELSE 10 * DigitsVal(SubSeq(s, 1, Len(s) - 1)) + DigitVal(s[Len(s)])

\* int(s): surrounding whitespace and one sign are allowed, then digits only;
\* anything else raises ValueError (ok = FALSE).
PyInt(s) ==
    LET t == Strip(s, Whitespace)
        signed == t # <<>> /\ t[1] \in {"+", "-"}
        body == IF signed THEN Tail(t) ELSE t
    IN  IF body = <<>> \/ \E i \in 1..Len(body) : ~IsDigit(body[i])
        THEN [ok |-> FALSE, val |-> 0]
        ELSE [ok |-> TRUE,
              val |-> IF signed /\ t[1] = "-" THEN 0 - DigitsVal(body)
                      ELSE DigitsVal(body)]

\* Decimal digits of n >= 0.
RECURSIVE Dec(_)
Dec(n) ==
    IF n < 10 THEN <<DigitChars[n + 1]>>
    ELSE Dec(n \div 10) \o <<DigitChars[(n % 10) + 1]>>

RECURSIVE ZeroPad(_, _)
ZeroPad(s, width) == IF Len(s) >= width THEN s ELSE ZeroPad(<<"0">> \o s, width)

\* "%d" % n
FmtD(n) == IF n < 0 THEN <<"-">> \o Dec(0 - n) ELSE Dec(n)

\* Fmt03d without the zero padding ("%d").
Fmt03dUnpadded(n) == FmtD(n)

\* "%03d" % n: the sign counts towards the width of 3.
Fmt03d(n) ==
    IF n < 0 THEN <<"-">> \o ZeroPad(Dec(0 - n), 2) ELSE ZeroPad(Dec(n), 3)

\* os.path.basename(p): what follows the last '/'.
Basename(p) == From(p, RFind(p, "/", Len(p)))

---------------------------------------------------------------------------
(* IlluminaFastq                                                           *)

NoIndex == <<"N", "o", "I", "n", "d", "e", "x">>

\* barcode_sequence is a string or None.
None == [isNone |-> TRUE, s |-> <<>>]
Str(s) == [isNone |-> FALSE, s |-> s]

\* The constructor left by an exception: no object, only the exception.
Raise(e) ==
    [err |-> e, sample_name |-> <<>>, barcode_sequence |-> None,
     lane_number |-> 0, read_number |-> 0, set_number |-> 0]

\* FastqBase cutting the extension before the path is removed.
FastqBaseExtFirst(name) ==
    LET i == Find(name, ".", 1)
    IN  Basename(IF i = 0 THEN name ELSE SubSeq(name, 1, i - 1))

\* fastq_base: no leading path, nothing from the first '.' on.
FastqBase(name) ==
    LET base == Basename(name)
        i == Find(base, ".", 1)
    IN  IF i = 0 THEN base ELSE SubSeq(base, 1, i - 1)

\* IlluminaFastq.__init__: the statements in their order, each with the
\* exception it can raise (IndexError for a missing field or character,
\* ValueError from int()).
IlluminaFastq(name) ==
    LET fields == Split(FastqBase(name), "_")
        nfields == Len(fields)
        set_number == PyInt(fields[nfields])
    IN  IF ~set_number.ok THEN Raise("ValueError")
        ELSE IF nfields < 2 THEN Raise("IndexError")
        ELSE IF Len(fields[nfields - 1]) < 2 THEN Raise("IndexError")
        ELSE
        LET read_number == PyInt(<<fields[nfields - 1][2]>>)
        IN  IF ~read_number.ok THEN Raise("ValueError")
            ELSE IF nfields < 3 THEN Raise("IndexError")
            ELSE
            LET lane_number == PyInt(From(fields[nfields - 2], 1))
            IN  IF ~lane_number.ok THEN Raise("ValueError")
                ELSE IF nfields < 4 THEN Raise("IndexError")
                ELSE
                [err |-> "none",
                 sample_name |-> Join(SubSeq(fields, 1, nfields - 4), "_"),
                 barcode_sequence |->
                     IF fields[nfields - 3] = NoIndex THEN None
                     ELSE Str(fields[nfields - 3]),
                 lane_number |-> lane_number.val,
                 read_number |-> read_number.val,
                 set_number |-> set_number.val]

\* Repr writing nothing for a missing barcode.
ReprNoneBlank(q) ==
    q.sample_name \o <<"_">>
    \o q.barcode_sequence.s
    \o <<"_", "L">> \o Fmt03d(q.lane_number)
    \o <<"_", "R">> \o FmtD(q.read_number)
    \o <<"_">> \o Fmt03d(q.set_number)

\* IlluminaFastq.__repr__: "%s_%s_L%03d_R%d_%03d"
Repr(q) ==
    q.sample_name \o <<"_">>
    \o (IF q.barcode_sequence.isNone THEN NoIndex ELSE q.barcode_sequence.s)
    \o <<"_", "L">> \o Fmt03d(q.lane_number)
    \o <<"_", "R">> \o FmtD(q.read_number)
    \o <<"_">> \o Fmt03d(q.set_number)

---------------------------------------------------------------------------
(* File names handed to the codec                                          *)
(*                                                                         *)
(* A name is assembled as dir + '_'.join(tokens) + ext.  Every candidate   *)
(* token is listed with the integer the convention reads from it (num, v), *)
(* whether it has the documented shape (shape) and whether it is the       *)
(* zero-padded form the convention writes (canon).                         *)

\* Largest number of '_'-separated tokens in a sample name.
MaxNameParts == 2

Tok(t, num, v, shape, canon) ==
    [t |-> t, num |-> num, v |-> v, shape |-> shape, canon |-> canon]

\* <set_number>: zero-padded 3 digit integer
SetTokens ==
    { Tok(<<"0", "0", "1">>, TRUE, 1, TRUE, TRUE),
      Tok(<<"0", "1", "2">>, TRUE, 12, TRUE, TRUE),
      Tok(<<"1">>, TRUE, 1, TRUE, FALSE),
      Tok(<<"x">>, FALSE, 0, FALSE, FALSE) }

\* R<read_number>: single digit, read from the second character
ReadTokens ==
    { Tok(<<"R", "1">>, TRUE, 1, TRUE, TRUE),
      Tok(<<"R", "2">>, TRUE, 2, TRUE, TRUE),
      Tok(<<"X", "1">>, TRUE, 1, FALSE, FALSE),
      Tok(<<"R", "1", "2">>, TRUE, 1, FALSE, FALSE),
      Tok(<<"R">>, FALSE, 0, FALSE, FALSE),
      Tok(<<"R", "x">>, FALSE, 0, FALSE, FALSE) }

\* L<lane_number>: zero-padded 3 digit integer, read after the first character
LaneTokens ==
    { Tok(<<"L", "0", "0", "1">>, TRUE, 1, TRUE, TRUE),
      Tok(<<"L", "0", "0", "2">>, TRUE, 2, TRUE, TRUE),
      Tok(<<"L", "1">>, TRUE, 1, TRUE, FALSE),
      Tok(<<"L", "-", "0", "1">>, TRUE, 0 - 1, TRUE, FALSE),
      Tok(<<"X", "0", "0", "2">>, TRUE, 2, FALSE, FALSE),
      Tok(<<"L">>, FALSE, 0, FALSE, FALSE) }

\* <barcode_sequence>: a tag, a dual tag, or NoIndex
BarcodeTokens == { <<"A", "T", "C">>, <<"A", "T", "-", "G", "C">>, NoIndex }

\* Tokens of a sample name
NameTokens == { <<"N", "A">>, <<"B", "1">>, <<>> }

Dirs == { <<>>, <<"/", "d", ".", "x", "/">> }

Exts == { <<>>, <<".", "f", "q">>, <<".", "f", "q", ".", "g", "z">> }

SeqsUpTo(S, n) == UNION { [1..k -> S] : k \in 0..n }

\* ntail is the number of positional tokens present (4 in a complete name);
\* a name with fewer has no sample-name tokens either.
Gens ==
    { g \in [dir : Dirs, ext : Exts, parts : SeqsUpTo(NameTokens, MaxNameParts),
             bc : BarcodeTokens, lane : LaneTokens, read : ReadTokens,
             set : SetTokens, ntail : 1..4] :
        g.ntail < 4 =>
            /\ g.parts = <<>>
            /\ g.bc = NoIndex
            /\ g.ntail < 3 => g.lane.t = <<"L", "0", "0", "1">>
            /\ g.ntail < 2 => g.read.t = <<"R", "1">> }

\* The '_'-separated tokens of the name g describes.
Tokens(g) ==
    LET tail == <<g.bc, g.lane.t, g.read.t, g.set.t>>
    IN  g.parts \o SubSeq(tail, 5 - g.ntail, 4)

NameOf(g) == g.dir \o Join(Tokens(g), "_") \o g.ext

---------------------------------------------------------------------------
(* The codec as a state machine: parse, format, parse again                *)

NoFq == Raise("unset")

SheetIdle ==
    /\ sheet = <<>>
    /\ old = <<>>
    /\ result = <<>>
    /\ nfix = 0

InitCodec ==
    /\ pc = "name"
    /\ gen \in Gens
    /\ fastq = NameOf(gen)
    /\ fq = NoFq
    /\ repr = <<>>
    /\ fq2 = NoFq
    /\ SheetIdle
    /\ ConvIdle
    /\ UniqueIdle
    /\ SampleIdle

\* fq = IlluminaFastq(fastq)
Parse ==
    /\ pc = "name"
    /\ fq' = IlluminaFastq(fastq)
    /\ pc' = "parsed"
    /\ UNCHANGED <<gen, fastq, repr, fq2, sheetVars, convVars, uniqueVars, sampleVars>>

\* repr(fq), for a constructor that returned
Format ==
    /\ pc = "parsed"
    /\ fq.err = "none"
    /\ repr' = Repr(fq)
    /\ pc' = "formatted"
    /\ UNCHANGED <<gen, fastq, fq, fq2, sheetVars, convVars, uniqueVars, sampleVars>>

\* IlluminaFastq(repr(fq))
Reparse ==
    /\ pc = "formatted"
    /\ fq2' = IlluminaFastq(repr)
    /\ pc' = "reparsed"
    /\ UNCHANGED <<gen, fastq, fq, repr, sheetVars, convVars, uniqueVars, sampleVars>>

NextCodec == Parse \/ Format \/ Reparse

SpecCodec == InitCodec /\ [][NextCodec]_vars

---------------------------------------------------------------------------
(* Properties of the codec (checked under SpecCodec)                       *)

\* fq holds the outcome of IlluminaFastq(fastq).
Parsed == pc \in {"parsed", "formatted", "reparsed"}

\* A name of the convention <sampleName>_<barcodeOrNoIndex>_L<3-digit lane>
\* _R<read>_<3-digit set>, without path or extension.
ValidName ==
    /\ gen.dir = <<>>
    /\ gen.ext = <<>>
    /\ gen.ntail = 4
    /\ Len(gen.parts) >= 1
    /\ gen.lane.canon
    /\ gen.read.canon
    /\ gen.set.canon

\* C1: a valid name of the convention, given without path or extension, is
\* accepted by the constructor and repr() of the parsed object is the name
\* itself.
C1_TextRoundTrip ==
    ValidName =>
        /\ Parsed => fq.err = "none"
        /\ pc \in {"formatted", "reparsed"} => repr = fastq

\* C1 witness: a valid name with a two-token sample name and no barcode has
\* been parsed and formatted.
C1_Witness ==
    /\ pc = "formatted"
    /\ ValidName
    /\ Len(gen.parts) = 2
    /\ gen.bc = NoIndex
    /\ gen.lane.v = 2
    /\ gen.set.v = 12

\* C2: for every name the constructor accepts, parsing repr() of the parsed
\* object succeeds and gives the same sample_name, barcode_sequence,
\* lane_number, read_number and set_number.
C2_StructRoundTrip == pc = "reparsed" => fq2 = fq

\* C2 witness: a name with path and extension, no barcode, a negative lane
\* and an unpadded set number has been parsed, formatted and parsed again.
C2_Witness ==
    /\ pc = "reparsed"
    /\ gen.dir # <<>>
    /\ gen.ext # <<>>
    /\ gen.bc = NoIndex
    /\ gen.lane.v < 0
    /\ ~gen.set.canon
    /\ repr # FastqBase(fastq)

C4_FewerThanFiveFails ==
    (Parsed /\ Len(Split(FastqBase(fastq), "_")) < 5) => fq.err # "none"

\* C5 (as claimed): the constructor fails whenever fewer than 4 positional
\* tokens exist or the lane, read or set token does not have the expected
\* shape.
C5_MisshapenFails ==
    (Parsed /\ (gen.ntail < 4 \/ ~gen.lane.shape \/ ~gen.read.shape
                \/ ~gen.set.shape))
        => fq.err # "none"

---------------------------------------------------------------------------
(* CasavaSampleSheet                                                       *)
(*                                                                         *)
(* The sheet is the sequence of its lines; a line is a record over the ten *)
(* column names.  Lists of lines returned by the properties hold           *)
(* references to the sheet's own lines: they are modelled as positions in  *)
(* the sheet.                                                              *)

\* A line with the given key fields; the other columns as in the test data.
Line(id, project, index, lane) ==
    [FCID |-> <<"F", "C">>, Lane |-> lane, SampleID |-> id,
     SampleRef |-> <<>>, Index |-> index, Description |-> <<>>,
     Control |-> <<>>, Recipe |-> <<>>, Operator |-> <<>>,
     SampleProject |-> project]

\* Key without the lane.
KeyNoLane(line) == <<line.SampleID, line.SampleProject, line.Index>>

\* name = ((line['SampleID'],line['SampleProject'],line['Index'],line['Lane']))
Key(line) == <<line.SampleID, line.SampleProject, line.Index, line.Lane>>

\* AddLine putting the line in front of the lines already stored.
AddLineFront(samples, name, i) ==
    IF name \notin DOMAIN samples THEN samples @@ (name :> <<i>>)
    ELSE [samples EXCEPT ![name] = <<i>> \o @]

\* The body of the first loop of duplicated_names for line i.
AddLine(samples, name, i) ==
    IF name \notin DOMAIN samples THEN samples @@ (name :> <<i>>)
    ELSE [samples EXCEPT ![name] = Append(@, i)]

\* The dictionary 'samples' after the first loop, run from line i on.
RECURSIVE BuildSamples(_, _, _)
BuildSamples(t, i, samples) ==
    IF i > Len(t) THEN samples
    ELSE BuildSamples(t, i + 1, AddLine(samples, Key(t[i]), i))

\* The orders in which a dictionary with key set K may be iterated.
RECURSIVE KeyOrders(_)
KeyOrders(K) ==
    IF K = {} THEN { <<>> }
    ELSE UNION { { <<k>> \o o : o \in KeyOrders(K \ {k}) } : k \in K }

\* The second loop of duplicated_names over the keys in the order o.
RECURSIVE Duplicates(_, _)
Duplicates(samples, o) ==
    IF o = <<>> THEN <<>>
    ELSE (IF Len(samples[Head(o)]) > 1 THEN <<samples[Head(o)]>> ELSE <<>>)
         \o Duplicates(samples, Tail(o))

\* duplicated_names: every value the property can return for the sheet t.
\* The dictionary is iterated in an order the language does not fix.
DuplicatedNames(t) ==
    LET samples == BuildSamples(t, 1, <<>>)
    IN  { Duplicates(samples, o) : o \in KeyOrders(DOMAIN samples) }

\* IsEmptyName looking at SampleID alone.
IsEmptyNameIdOnly(line) == Strip(line.SampleID, Whitespace) = <<>>

\* line['SampleID'].strip() == '' or line['SampleProject'].strip() == ''
IsEmptyName(line) ==
    \/ Strip(line.SampleID, Whitespace) = <<>>
    \/ Strip(line.SampleProject, Whitespace) = <<>>

\* empty_names, run from line i on.
RECURSIVE EmptyNames(_, _)
EmptyNames(t, i) ==
    IF i > Len(t) THEN <<>>
    ELSE (IF IsEmptyName(t[i]) THEN <<i>> ELSE <<>>) \o EmptyNames(t, i + 1)

\* Renamed numbering the lines of a group from 0.
RenamedFromZero(id, i) == id \o <<"_">> \o FmtD(i)

\* "%s_%d" % (duplicate[i]['SampleID'],i+1)
Renamed(id, i) == id \o <<"_">> \o FmtD(i + 1)

\* RenameGroup writing the new name to the SampleProject as well.
RECURSIVE RenameGroupBoth(_, _, _)
RenameGroupBoth(t, duplicate, i) ==
    IF i >= Len(duplicate) THEN t
    ELSE RenameGroupBoth(
             [t EXCEPT ![duplicate[i + 1]].SampleID = Renamed(@, i),
                       ![duplicate[i + 1]].SampleProject = Renamed(@, i)],
             duplicate, i + 1)

\* The inner loop of fix_duplicated_names, from index i (0-based) on.
RECURSIVE RenameGroup(_, _, _)
RenameGroup(t, duplicate, i) ==
    IF i >= Len(duplicate) THEN t
    ELSE RenameGroup([t EXCEPT ![duplicate[i + 1]].SampleID = Renamed(@, i)],
                     duplicate, i + 1)

\* The outer loop of fix_duplicated_names over the groups it was given.
RECURSIVE RenameGroups(_, _)
RenameGroups(t, duplicates) ==
    IF duplicates = <<>> THEN t
    ELSE RenameGroups(RenameGroup(t, Head(duplicates), 0), Tail(duplicates))

\* self.illegal_characters = "?()[]/\=+<>:;\"',*^|&. \t"
illegal_characters ==
    <<"?", "(", ")", "[", "]", "/", "\\", "=", "+", "<", ">", ":", ";", "\"",
      "'", ",", "*", "^", "|", "&", ".", " ", "\t">>

\* s.count(c) > 0
Contains(s, c) == \E k \in 1..Len(s) : s[k] = c

\* s.replace(c, r) for one-character c and r
Replace(s, c, r) == [k \in 1..Len(s) |-> IF s[k] = c THEN r ELSE s[k]]

\* LineIllegal without the break: one entry per matching character.
RECURSIVE LineIllegalNoBreak(_, _, _)
LineIllegalNoBreak(t, i, k) ==
    IF k > Len(illegal_characters) THEN <<>>
    ELSE (IF \/ Contains(t[i].SampleID, illegal_characters[k])
             \/ Contains(t[i].SampleProject, illegal_characters[k])
          THEN <<i>> ELSE <<>>)
         \o LineIllegalNoBreak(t, i, k + 1)

\* The inner loop of illegal_names for line i, from character k on: what it
\* appends to the result (the line, then break).
RECURSIVE LineIllegal(_, _, _)
LineIllegal(t, i, k) ==
    IF k > Len(illegal_characters) THEN <<>>
    ELSE IF \/ Contains(t[i].SampleID, illegal_characters[k])
            \/ Contains(t[i].SampleProject, illegal_characters[k])
         THEN <<i>>
         ELSE LineIllegal(t, i, k + 1)

\* illegal_names, run from line i on.
RECURSIVE IllegalNames(_, _)
IllegalNames(t, i) ==
    IF i > Len(t) THEN <<>>
    ELSE LineIllegal(t, i, 1) \o IllegalNames(t, i + 1)

\* FixStep leaving the underscores at the ends of the name.
FixStepNoTrim(name, c) == Replace(Strip(name, Whitespace), c, "_")

\* name.strip().replace(c,'_').strip('_')
FixStep(name, c) == Strip(Replace(Strip(name, Whitespace), c, "_"), {"_"})

\* FixLine leaving the loop after the first character it found in the line.
RECURSIVE FixLineBreak(_, _)
FixLineBreak(line, k) ==
    IF k > Len(illegal_characters) THEN line
    ELSE IF \/ Contains(line.SampleID, illegal_characters[k])
            \/ Contains(line.SampleProject, illegal_characters[k])
         THEN [line EXCEPT
                  !.SampleID = FixStep(@, illegal_characters[k]),
                  !.SampleProject = FixStep(@, illegal_characters[k])]
         ELSE FixLineBreak(line, k + 1)

\* The inner loop of fix_illegal_names for one line, from character k on.
RECURSIVE FixLine(_, _)
FixLine(line, k) ==
    IF k > Len(illegal_characters) THEN line
    ELSE FixLine([line EXCEPT
                     !.SampleID = FixStep(@, illegal_characters[k]),
                     !.SampleProject = FixStep(@, illegal_characters[k])],
                 k + 1)

\* The outer loop of fix_illegal_names over the lines it was given.
RECURSIVE FixLines(_, _)
FixLines(t, lines) ==
    IF lines = <<>> THEN t
    ELSE FixLines([t EXCEPT ![Head(lines)] = FixLine(@, 1)], Tail(lines))

\* fix_illegal_names: the sheet it leaves.
FixIllegal(t) == FixLines(t, IllegalNames(t, 1))

---------------------------------------------------------------------------
(* Sample sheets handed to the operations                                  *)

\* Largest number of lines of a sheet built from IdentityLines.
MaxDupRows == 4

\* Largest number of lines of a sheet built from NameLines.
MaxNameRows == 3

\* Largest number of lines of a sheet built from IllegalLines.
MaxIllegalRows == 3

\* Largest number of fix_duplicated_names calls on one sheet.
MaxFixes == 2

S_A == <<"A">>
S_A1 == <<"A", "_", "1">>
S_P == <<"P">>
S_Q == <<"Q">>
S_I == <<"A", "G", "T">>

\* Lines that agree with the line (A, P, AGT, lane 1) or differ from it in
\* exactly one of SampleID, SampleProject, Index and Lane.
IdentityLines ==
    { Line(S_A, S_P, S_I, 1), Line(S_A1, S_P, S_I, 1), Line(S_A, S_Q, S_I, 1),
      Line(S_A, S_P, <<>>, 1), Line(S_A, S_P, S_I, 2) }

\* Lines whose SampleID and SampleProject are names, empty or whitespace.
NameLines ==
    { Line(id, project, S_I, 1) :
        id \in { S_A, <<>>, <<" ">>, <<" ", "A", " ">> },
        project \in { S_P, <<"\t", " ">> } }

\* Lines whose names hold forbidden characters at the front, inside and at
\* the end, underscores of their own, and a trailing carriage return.
IllegalLines ==
    { Line(S_A, S_P, S_I, 1),
      Line(<<"A", "?">>, S_P, S_I, 1),
      Line(<<".", "A", " ", "b", "(">>, <<"_", "P">>, S_I, 1),
      Line(S_A, <<"P", "&", "\r">>, S_I, 1),
      Line(<<"?">>, S_P, S_I, 1),
      Line(<<"_", "A">>, S_P, S_I, 1) }

Sheets == SeqsUpTo(IdentityLines, MaxDupRows) \cup SeqsUpTo(NameLines, MaxNameRows)

\* The sheets handed to the operations on illegal names.
NameSheets == SeqsUpTo(IllegalLines, MaxIllegalRows)

---------------------------------------------------------------------------
(* The sample sheet as a state machine                                     *)

CodecIdle ==
    /\ gen = <<>>
    /\ fastq = <<>>
    /\ fq = NoFq
    /\ repr = <<>>
    /\ fq2 = NoFq

InitSheet ==
    /\ pc = "sheet"
    /\ sheet \in Sheets
    /\ old = sheet
    /\ result = <<>>
    /\ nfix = 0
    /\ CodecIdle
    /\ ConvIdle
    /\ UniqueIdle
    /\ SampleIdle

SheetPcs ==
    {"sheet", "duplicated_names", "empty_names", "illegal_names",
     "fix_duplicated_names", "fix_illegal_names"}

\* result = sheet.duplicated_names
ReadDuplicatedNames ==
    /\ pc \in SheetPcs
    /\ \E d \in DuplicatedNames(sheet) : result' = d
    /\ old' = sheet
    /\ pc' = "duplicated_names"
    /\ UNCHANGED <<sheet, nfix, codecVars, convVars, uniqueVars, sampleVars>>

\* result = sheet.empty_names
ReadEmptyNames ==
    /\ pc \in SheetPcs
    /\ result' = EmptyNames(sheet, 1)
    /\ old' = sheet
    /\ pc' = "empty_names"
    /\ UNCHANGED <<sheet, nfix, codecVars, convVars, uniqueVars, sampleVars>>

\* sheet.fix_duplicated_names()
FixDuplicatedNames ==
    /\ pc \in SheetPcs
    /\ nfix < MaxFixes
    /\ \E d \in DuplicatedNames(sheet) : sheet' = RenameGroups(sheet, d)
    /\ old' = sheet
    /\ result' = <<>>
    /\ nfix' = nfix + 1
    /\ pc' = "fix_duplicated_names"
    /\ UNCHANGED <<codecVars, convVars, uniqueVars, sampleVars>>

\* ReadIllegalNames repairing what it reports.
ReadIllegalNamesFixing ==
    /\ pc \in SheetPcs
    /\ result' = IllegalNames(sheet, 1)
    /\ sheet' = FixIllegal(sheet)
    /\ old' = sheet
    /\ pc' = "illegal_names"
    /\ UNCHANGED <<nfix, codecVars, convVars, uniqueVars, sampleVars>>

\* result = sheet.illegal_names
ReadIllegalNames ==
    /\ pc \in SheetPcs
    /\ result' = IllegalNames(sheet, 1)
    /\ old' = sheet
    /\ pc' = "illegal_names"
    /\ UNCHANGED <<sheet, nfix, codecVars, convVars, uniqueVars, sampleVars>>

\* sheet.fix_illegal_names()
FixIllegalNames ==
    /\ pc \in SheetPcs
    /\ sheet' = FixIllegal(sheet)
    /\ old' = sheet
    /\ result' = <<>>
    /\ pc' = "fix_illegal_names"
    /\ UNCHANGED <<nfix, codecVars, convVars, uniqueVars, sampleVars>>

NextSheet == ReadDuplicatedNames \/ ReadEmptyNames \/ FixDuplicatedNames

SpecSheet == InitSheet /\ [][NextSheet]_vars

\* A sheet with names to validate and repair: every validation and every
\* repair of CasavaSampleSheet, in any order.
InitNames ==
    /\ pc = "sheet"
    /\ sheet \in NameSheets
    /\ old = sheet
    /\ result = <<>>
    /\ nfix = 0
    /\ CodecIdle
    /\ ConvIdle
    /\ UniqueIdle
    /\ SampleIdle

NextNames ==
    \/ ReadDuplicatedNames
    \/ ReadEmptyNames
    \/ ReadIllegalNames
    \/ FixDuplicatedNames
    \/ FixIllegalNames

SpecNames == InitNames /\ [][NextNames]_vars

---------------------------------------------------------------------------
(* Properties of the sample sheet (checked under SpecSheet)                *)

\* Two lines have the same (SampleID, SampleProject, Index, Lane).
SameIdentity(a, b) ==
    /\ a.SampleID = b.SampleID
    /\ a.SampleProject = b.SampleProject
    /\ a.Index = b.Index
    /\ a.Lane = b.Lane

\* Line i of sheet t shares its identity with another line of t.
IsDuplicated(t, i) ==
    \E j \in 1..Len(t) : j # i /\ SameIdentity(t[i], t[j])

\* The places <<g, p>> of a list of groups d.
Places(d) == UNION { { <<g, p>> : p \in 1..Len(d[g]) } : g \in 1..Len(d) }

RowsInTableOrder(d) ==
    \A g \in 1..Len(d) : \A p, q \in 1..Len(d[g]) : p < q => d[g][p] < d[g][q]

\* The groups are ordered by the position of their first line.
GroupsInTableOrder(d) ==
    \A g, h \in 1..Len(d) : g < h => d[g][1] < d[h][1]

\* C7 (as claimed): the groups are ordered by the table position of their
\* first line and the lines inside each group are in table order.
C7_EncounterOrder ==
    pc = "duplicated_names" =>
        (GroupsInTableOrder(result) /\ RowsInTableOrder(result))

\* C7 (amended): the lines inside each group are in table order; the order
\* of the groups is that of the dictionary's iteration, which is not fixed.
C7_RowsInTableOrder == pc = "duplicated_names" => RowsInTableOrder(result)

\* C7 witness: two groups were returned, the group met later in the table
\* first, each with its lines in table order.
C7_Witness ==
    /\ pc = "duplicated_names"
    /\ Len(result) = 2
    /\ result[1][1] > result[2][1]
    /\ RowsInTableOrder(result)

\* Sheet t is N >= 2 lines sharing one identity and one line distinct from
\* them.
GroupAndOne(t) ==
    /\ Len(t) >= 3
    /\ \E k \in 1..Len(t) : \A i, j \in 1..Len(t) :
           (i # k /\ j # k) => /\ SameIdentity(t[i], t[j])
                               /\ ~SameIdentity(t[i], t[k])

\* C8 (as claimed): for a sheet of N lines sharing one key and one distinct
\* line, duplicated_names returns one group of size N, and after
\* fix_duplicated_names it returns no group.
C8_FixRemovesDuplicates ==
    /\ (pc = "duplicated_names" /\ GroupAndOne(sheet)) =>
           (Len(result) = 1 /\ Len(result[1]) = Len(sheet) - 1)
    /\ (pc = "fix_duplicated_names" /\ GroupAndOne(old)) =>
           DuplicatedNames(sheet) = { <<>> }

\* Number of lines of t up to line i with the identity of line i.
RankInGroup(t, i) ==
    Cardinality({ j \in 1..i : SameIdentity(t[j], t[i]) })

\* C9: fix_duplicated_names appends _<i+1> to the SampleID of the line at
\* 0-based position i, in table order, of every duplicate group, the first
\* line of a group included.
C9_Suffixes ==
    pc = "fix_duplicated_names" =>
        /\ Len(sheet) = Len(old)
        /\ \A r \in 1..Len(old) :
               IsDuplicated(old, r) =>
                   sheet[r].SampleID =
                       old[r].SampleID \o <<"_">> \o Dec(RankInGroup(old, r))

\* C9 witness: a group of three lines and a group of two lines have been
\* renamed.
C9_Witness ==
    /\ pc = "fix_duplicated_names"
    /\ \E r \in 1..Len(old) : IsDuplicated(old, r) /\ RankInGroup(old, r) = 3
    /\ \E r \in 1..Len(old) : ~IsDuplicated(old, r)
    /\ \E r \in 1..Len(old) : sheet[r].SampleID = <<"A", "_", "1", "_", "1">>

\* Every character of s is whitespace.
Blank(s) == \A k \in 1..Len(s) : s[k] \in {" ", "\t", "\n", "\r", "\f"}

\* C10: empty_names returns, in table order and each once, exactly the lines
\* whose SampleID or SampleProject is blank after trimming whitespace.
C10_EmptyNames ==
    pc = "empty_names" =>
        /\ \A p, q \in 1..Len(result) : p < q => result[p] < result[q]
        /\ { result[p] : p \in 1..Len(result) } =
               { i \in 1..Len(sheet) :
                   Blank(sheet[i].SampleID) \/ Blank(sheet[i].SampleProject) }

\* C10 witness: of three lines the first has a whitespace-only project, the
\* second padded but non-blank names and the third an empty SampleID; the
\* first and the third were returned.
C10_Witness ==
    /\ pc = "empty_names"
    /\ Len(sheet) = 3
    /\ result = <<1, 3>>
    /\ sheet[1].SampleProject = <<"\t", " ">>
    /\ sheet[1].SampleID = S_A
    /\ sheet[2].SampleID = <<" ", "A", " ">>
    /\ sheet[3].SampleID = <<>>

---------------------------------------------------------------------------
(* Properties of the names of the sample sheet (checked under SpecNames)   *)

\* The forbidden characters, as a set.
Forbidden ==
    {"?", "(", ")", "[", "]", "/", "\\", "=", "+", "<", ">", ":", ";", "\"",
     "'", ",", "*", "^", "|", "&", ".", " ", "\t"}

\* s holds at least one forbidden character.
HasForbidden(s) == \E k \in 1..Len(s) : s[k] \in Forbidden

\* Line r of t is one that illegal_names has to report.
Flagged(t, r) == HasForbidden(t[r].SampleID) \/ HasForbidden(t[r].SampleProject)

\* s with every forbidden character replaced by an underscore.
Underscored(s) == [k \in 1..Len(s) |-> IF s[k] \in Forbidden THEN "_" ELSE s[k]]

\* s without its leading and trailing underscores.
TrimUnderscores(s) ==
    LET keep == { k \in 1..Len(s) : s[k] # "_" }
    IN  IF keep = {} THEN <<>>
        ELSE LET lo == CHOOSE k \in keep : \A j \in keep : k <= j
                 hi == CHOOSE k \in keep : \A j \in keep : j <= k
             IN  [k \in 1..(hi - lo + 1) |-> s[lo + k - 1]]

\* The repaired name as the specification words it.
Repaired(s) == TrimUnderscores(Underscored(s))

\* The only whitespace in s is the space and the tab of the forbidden set.
PlainSpaced(s) == \A k \in 1..Len(s) : s[k] \notin {"\n", "\r", "\f"}

\* C11: illegal_names returns, in table order and each exactly once, exactly
\* the lines whose SampleID or SampleProject holds a forbidden character.
C11_IllegalNames ==
    pc = "illegal_names" =>
        /\ \A p, q \in 1..Len(result) : p < q => result[p] < result[q]
        /\ { result[p] : p \in 1..Len(result) } =
               { i \in 1..Len(sheet) : Flagged(sheet, i) }

\* C11 witness: of three lines the first has three forbidden characters in
\* its SampleID, the second none in either name, and the third one in its
\* SampleProject only; the first and the third were returned, once each.
C11_Witness ==
    /\ pc = "illegal_names"
    /\ Len(sheet) = 3
    /\ result = <<1, 3>>
    /\ sheet[1].SampleID = <<".", "A", " ", "b", "(">>
    /\ sheet[2].SampleID = <<"_", "A">>
    /\ sheet[3].SampleID = S_A
    /\ sheet[3].SampleProject = <<"P", "&", "\r">>

\* C12 as claimed: fix_illegal_names sets both names of every flagged line to
\* the name with each forbidden character replaced by '_' and the underscores
\* at its ends trimmed, and illegal_names is empty afterwards.
C12_ReplaceThenTrim ==
    pc = "fix_illegal_names" =>
        /\ \A r \in 1..Len(old) :
               Flagged(old, r) =>
                   /\ sheet[r].SampleID = Repaired(old[r].SampleID)
                   /\ sheet[r].SampleProject = Repaired(old[r].SampleProject)
        /\ IllegalNames(sheet, 1) = <<>>

\* C12: fix_illegal_names sets each name of every flagged line that holds no
\* whitespace other than space and tab to the name with each forbidden
\* character replaced by '_' and the underscores at its ends trimmed; every
\* name of a flagged line is left without a forbidden character and without
\* an underscore at either end, and illegal_names is empty afterwards.
C12_ReplaceThenTrimPlain ==
    pc = "fix_illegal_names" =>
        /\ Len(sheet) = Len(old)
        /\ \A r \in 1..Len(old) :
               Flagged(old, r) =>
                   /\ PlainSpaced(old[r].SampleID) =>
                          sheet[r].SampleID = Repaired(old[r].SampleID)
                   /\ PlainSpaced(old[r].SampleProject) =>
                          sheet[r].SampleProject = Repaired(old[r].SampleProject)
                   /\ ~HasForbidden(sheet[r].SampleID)
                   /\ ~HasForbidden(sheet[r].SampleProject)
                   /\ TrimUnderscores(sheet[r].SampleID) = sheet[r].SampleID
                   /\ TrimUnderscores(sheet[r].SampleProject) = sheet[r].SampleProject
        /\ IllegalNames(sheet, 1) = <<>>

\* C12 witness: a flagged line with forbidden characters at the front, inside
\* and at the end of its SampleID and an underscore of its own in front of
\* its SampleProject was repaired to 'A_b' and 'P', next to a line whose
\* SampleProject lost its '&' and the carriage return behind it.
C12_Witness ==
    /\ pc = "fix_illegal_names"
    /\ \E r \in 1..Len(old) :
           /\ old[r].SampleID = <<".", "A", " ", "b", "(">>
           /\ old[r].SampleProject = <<"_", "P">>
           /\ sheet[r].SampleID = <<"A", "_", "b">>
           /\ sheet[r].SampleProject = S_P
    /\ \E r \in 1..Len(old) :
           /\ old[r].SampleProject = <<"P", "&", "\r">>
           /\ sheet[r].SampleProject = S_P

\* C13: fix_illegal_names is idempotent: applied to the sheet it has just
\* left, it leaves every field of every line as it is.
C13_Idempotent ==
    pc = "fix_illegal_names" => FixIllegal(sheet) = sheet

\* C13 witness: the first application changed a line holding two different
\* forbidden characters, and a line it had no reason to touch stands beside.
C13_Witness ==
    /\ pc = "fix_illegal_names"
    /\ \E r \in 1..Len(old) :
           /\ old[r].SampleID = <<".", "A", " ", "b", "(">>
           /\ sheet[r] # old[r]
    /\ \E r \in 1..Len(old) : ~Flagged(old, r) /\ sheet[r] = old[r]

\* C15: duplicated_names, empty_names and illegal_names return a result and
\* leave the number, the order and every field of the lines as they were; a
\* sheet that differs from the one before the operation was left by
\* fix_duplicated_names or fix_illegal_names.
C15_ValidationFrame ==
    /\ pc \in {"duplicated_names", "empty_names", "illegal_names"} => sheet = old
    /\ sheet # old => pc \in {"fix_duplicated_names", "fix_illegal_names"}

\* C15 witness: illegal_names reported two lines of a sheet of three that
\* still holds every forbidden character it held.
C15_Witness ==
    /\ pc = "illegal_names"
    /\ Len(sheet) = 3
    /\ Len(result) = 2
    /\ sheet[1].SampleID = <<"A", "?">>
    /\ sheet[2].SampleID = <<"?">>
    /\ sheet[3].SampleID = S_A
    /\ sheet[3].SampleProject = S_P

---------------------------------------------------------------------------
(* CasavaSampleSheet.__init__ on a sheet read from text                    *)
(*                                                                         *)
(* The lines are those the underlying table has loaded: fields may still   *)
(* carry their double quotes.  Lane is a number and carries none.          *)

\* str(value).strip('"')
StripQuotes(s) == Strip(s, {"\""})

\* The first loop of __init__: every field of every line without its quotes.
Unquote(line) ==
    [FCID |-> StripQuotes(line.FCID), Lane |-> line.Lane,
     SampleID |-> StripQuotes(line.SampleID),
     SampleRef |-> StripQuotes(line.SampleRef),
     Index |-> StripQuotes(line.Index),
     Description |-> StripQuotes(line.Description),
     Control |-> StripQuotes(line.Control),
     Recipe |-> StripQuotes(line.Recipe),
     Operator |-> StripQuotes(line.Operator),
     SampleProject |-> StripQuotes(line.SampleProject)]

UnquoteAll(t) == [i \in 1..Len(t) |-> Unquote(t[i])]

\* str(line): the fields joined by the delimiter of the sheet.
Rendered(line) ==
    Join(<<line.FCID, FmtD(line.Lane), line.SampleID, line.SampleRef,
           line.Index, line.Description, line.Control, line.Recipe,
           line.Operator, line.SampleProject>>, ",")

\* s.startswith(prefix)
StartsWith(s, prefix) ==
    /\ Len(s) >= Len(prefix)
    /\ \A k \in 1..Len(prefix) : s[k] = prefix[k]

\* del(self[i])
DelItem(t, i) == [k \in 1..(Len(t) - 1) |-> IF k < i THEN t[k] ELSE t[k + 1]]

\* The second loop of __init__, from position i on: the iteration goes by
\* position over the list the loop body deletes from.
RECURSIVE DropCommented(_, _)
DropCommented(t, i) ==
    IF i > Len(t) THEN t
    ELSE IF StartsWith(Rendered(t[i]), <<"#">>)
         THEN DropCommented(DelItem(t, i), i + 1)
         ELSE DropCommented(t, i + 1)

\* Largest number of lines of a sheet read from text.
MaxLoadRows == 3

\* A loaded line with the given FCID and SampleID.
LoadedLine(fcid, id) ==
    [Line(id, <<"\"", "P", "\"">>, S_I, 1) EXCEPT !.FCID = fcid]

\* Plain, quoted and quoted-and-commented lines, of two samples.
LoadedLines ==
    { LoadedLine(f, id) :
        f \in { <<"F", "C">>, <<"\"", "F", "C", "\"">>,
                <<"\"", "#", "F", "C", "\"">> },
        id \in { S_A, <<"\"", "B", "\"">> } }

\* The table has loaded the text; __init__ has its two loops still to run.
InitLoad ==
    /\ pc = "loaded"
    /\ sheet \in SeqsUpTo(LoadedLines, MaxLoadRows)
    /\ old = sheet
    /\ result = <<>>
    /\ nfix = 0
    /\ CodecIdle
    /\ ConvIdle
    /\ UniqueIdle
    /\ SampleIdle

\* The two loops of __init__.
Construct ==
    /\ pc = "loaded"
    /\ sheet' = DropCommented(UnquoteAll(sheet), 1)
    /\ old' = sheet
    /\ pc' = "sheet"
    /\ UNCHANGED <<result, nfix, codecVars, convVars, uniqueVars, sampleVars>>

NextLoad == Construct

SpecLoad == InitLoad /\ [][NextLoad]_vars

---------------------------------------------------------------------------
(* Properties of the construction (checked under SpecLoad)                 *)

\* Line r of the loaded sheet is commented once its quotes are stripped.
Commented(t, r) ==
    LET f == StripQuotes(t[r].FCID) IN f # <<>> /\ f[1] = "#"

\* The positions of t that are not commented, in increasing order.
RECURSIVE KeptRows(_, _)
KeptRows(t, r) ==
    IF r > Len(t) THEN <<>>
    ELSE (IF Commented(t, r) THEN <<>> ELSE <<r>>) \o KeptRows(t, r + 1)

\* C14: a sheet constructed from text holds, in their order and without
\* their quotes, exactly the loaded lines that are not commented, wherever
\* and however many the commented lines are.
C14_NoCommentedRow ==
    pc = "sheet" =>
        LET kept == KeptRows(old, 1)
        IN  /\ Len(sheet) = Len(kept)
            /\ \A k \in 1..Len(kept) : sheet[k] = Unquote(old[kept[k]])

---------------------------------------------------------------------------
(* get_casava_sample_sheet                                                 *)
(*                                                                         *)
(* The stream is the sequence of its lines, each with its newline.  The    *)
(* function reads the first line, decides the format, skips to the [Data]  *)
(* line of an Experiment Manager sheet, hands the rest of the stream to    *)
(* the table reader and builds the CasavaSampleSheet from its lines.       *)

\* FCID_default='FC1'
FCID_default == <<"F", "C", "1">>

HeaderMark == <<"[", "H", "e", "a", "d", "e", "r", "]">>
DataMark == <<"[", "D", "a", "t", "a", "]">>

Sample_ID == <<"S", "a", "m", "p", "l", "e", "_", "I", "D">>
Sample_Project == <<"S", "a", "m", "p", "l", "e", "_", "P", "r", "o", "j", "e", "c", "t">>
DescriptionCol == <<"D", "e", "s", "c", "r", "i", "p", "t", "i", "o", "n">>
LaneCol == <<"L", "a", "n", "e">>
IndexCol == <<"i", "n", "d", "e", "x">>
Index2Col == <<"i", "n", "d", "e", "x", "2">>

\* sample_sheet_fp.readline() after n calls: the next line, '' at the end.
ReadLine(s, n) == IF n < Len(s) THEN s[n + 1] ELSE <<>>

\* The fields of one line of the stream as the table reader splits them.
Fields(l) == Split(RStrip(l, {"\n"}), ",")

\* TabFile(fp=..., first_line_is_header=True): the column names.
TabHeader(lines) == IF lines = <<>> THEN <<>> ELSE Fields(lines[1])

\* TabFile(fp=..., first_line_is_header=True): the data lines.
TabRows(lines) == [k \in 1..(Len(lines) - 1) |-> Fields(lines[k + 1])]

\* UnquoteRow leaving the quotes where they are.
KeepQuotes(row) == row

\* line[col] = str(line[col]).strip('"') for every column
UnquoteRow(row) == [k \in 1..Len(row) |-> StripQuotes(row[k])]

\* line[col] does not raise KeyError.
HasCol(header, col) == \E k \in 1..Len(header) : header[k] = col

\* line[col]
Col(header, row, col) == row[CHOOSE k \in 1..Len(header) : header[k] = col]

\* The value the table holds for a numeral.
LaneValue(text) == IF PyInt(text).ok THEN PyInt(text).val ELSE 0

LowerCase ==
    <<"a", "b", "c", "d", "e", "f", "g", "h", "i", "j", "k", "l", "m",
      "n", "o", "p", "q", "r", "s", "t", "u", "v", "w", "x", "y", "z">>

UpperCase ==
    <<"A", "B", "C", "D", "E", "F", "G", "H", "I", "J", "K", "L", "M",
      "N", "O", "P", "Q", "R", "S", "T", "U", "V", "W", "X", "Y", "Z">>

IsAlpha(c) == \E k \in 1..26 : c = LowerCase[k] \/ c = UpperCase[k]

Upper(c) ==
    IF \E k \in 1..26 : c = LowerCase[k]
    THEN UpperCase[CHOOSE k \in 1..26 : c = LowerCase[k]]
    ELSE c

\* bcf_utils.extract_initials(name): the leading letters, uppercased.
RECURSIVE extract_initials(_)
extract_initials(name) ==
    IF name = <<>> \/ ~IsAlpha(name[1]) THEN <<>>
    ELSE <<Upper(name[1])>> \o extract_initials(Tail(name))

\* LaneOf ignoring the Lane column.
LaneOfDefault(header, row) == 1

\* try: lane = line['Lane'] / except KeyError: lane = 1
LaneOf(header, row) ==
    IF HasCol(header, LaneCol) THEN LaneValue(Col(header, row, LaneCol)) ELSE 1

\* IndexTag taking the index alone whenever there is one.
IndexTagSingle(header, row) ==
    IF HasCol(header, IndexCol) THEN Col(header, row, IndexCol) ELSE <<>>

\* The index tag: "%s-%s" of index and index2, on KeyError the index alone,
\* on KeyError again ''.
IndexTag(header, row) ==
    IF HasCol(header, IndexCol) /\ HasCol(header, Index2Col)
    THEN Col(header, row, IndexCol) \o <<"-">> \o Col(header, row, Index2Col)
    ELSE IF HasCol(header, IndexCol) THEN Col(header, row, IndexCol)
    ELSE <<>>

\* The project name: the initials of the sample name if Sample_Project is ''.
ProjectOf(header, row) ==
    IF Col(header, row, Sample_Project) = <<>>
    THEN extract_initials(Col(header, row, Sample_ID))
    ELSE Col(header, row, Sample_Project)

\* One line of the new sheet, built from one line of an Experiment Manager
\* sheet; sample_sheet.append() gives a line with every field empty.
ExperimentManagerLine(header, row) ==
    [FCID |-> FCID_default,
     Lane |-> LaneOf(header, row),
     SampleID |-> Col(header, row, Sample_ID),
     SampleRef |-> <<>>,
     Index |-> IndexTag(header, row),
     Description |-> Col(header, row, DescriptionCol),
     Control |-> <<>>, Recipe |-> <<>>, Operator |-> <<>>,
     SampleProject |-> ProjectOf(header, row)]

\* sample_sheet.append(tabdata=str(line)) for a line of ten fields.
StandardLine(row) ==
    [FCID |-> row[1], Lane |-> LaneValue(row[2]), SampleID |-> row[3],
     SampleRef |-> row[4], Index |-> row[5], Description |-> row[6],
     Control |-> row[7], Recipe |-> row[8], Operator |-> row[9],
     SampleProject |-> row[10]]

\* The test of the standard-format loop: the line is skipped.
SkippedRow(row) ==
    \/ StartsWith(row[1], <<"#">>)
    \/ Strip(Join(row, ","), Whitespace) = <<>>

\* The standard-format loop over the rows from k on.
RECURSIVE StandardLines(_, _)
StandardLines(rows, k) ==
    IF k > Len(rows) THEN <<>>
    ELSE (IF SkippedRow(rows[k]) THEN <<>> ELSE <<StandardLine(rows[k])>>)
         \o StandardLines(rows, k + 1)

---------------------------------------------------------------------------
(* Input streams handed to get_casava_sample_sheet                         *)
(*                                                                         *)
(* A stream is assembled from: leading empty lines; a first line that is   *)
(* '[Header]', another bracketed section name, the header of a standard    *)
(* sheet, a line without a comma, or nothing; for a sectioned sheet some   *)
(* lines before '[Data]', the '[Data]' line or none, the column names and  *)
(* the data rows.                                                          *)

\* Largest number of empty lines in front of the first line.
MaxBlankLines == 1

\* Largest number of data rows of a stream.
MaxDataRows == 2

\* Largest number of readline() calls followed on one stream.
MaxReads == 10

NL == <<"\n">>

\* v between double quotes, or as it is.
Quoted(v, quoted) == IF quoted THEN <<"\"">> \o v \o <<"\"">> ELSE v

\* One line of comma-delimited text.
TextLine(fields) == Join(fields, ",") \o NL

\* The rows of an Experiment Manager sheet: sample name, project name,
\* whether the fields are quoted, and the initials of the sample name.
SourceRows ==
    { [id |-> <<"P", "B", "1">>, project |-> <<>>, quoted |-> FALSE, initials |-> <<"P", "B">>],
      [id |-> <<"P", "B", "1">>, project |-> <<" ">>, quoted |-> FALSE, initials |-> <<"P", "B">>],
      [id |-> <<"a", "2">>, project |-> <<"P", "J">>, quoted |-> TRUE, initials |-> <<"A">>],
      [id |-> <<"a", "2">>, project |-> <<>>, quoted |-> TRUE, initials |-> <<"A">>] }

\* The index and index2 values of every source row.
SourceIndex == <<"A", "T">>
SourceIndex2 == <<"G", "C">>

\* Which optional columns the sheet has.
ColumnSets == [lane : BOOLEAN, index : BOOLEAN, index2 : BOOLEAN]

NoColumns == [lane |-> FALSE, index |-> FALSE, index2 |-> FALSE]

Columns(c) ==
    (IF c.lane THEN <<LaneCol>> ELSE <<>>)
    \o <<Sample_ID>>
    \o (IF c.index THEN <<IndexCol>> ELSE <<>>)
    \o (IF c.index2 THEN <<Index2Col>> ELSE <<>>)
    \o <<Sample_Project, DescriptionCol>>

\* The fields of source row r at position k: its lane is k + 1, its
\* description 'r' followed by the sample name.
RowFields(c, r, k) ==
    (IF c.lane THEN <<FmtD(k + 1)>> ELSE <<>>)
    \o <<Quoted(r.id, r.quoted)>>
    \o (IF c.index THEN <<SourceIndex>> ELSE <<>>)
    \o (IF c.index2 THEN <<SourceIndex2>> ELSE <<>>)
    \o <<Quoted(r.project, r.quoted), Quoted(<<"r">> \o r.id, r.quoted)>>

\* The rows of a standard sheet, by kind: two rows of ten fields (one with
\* quoted fields), two commented rows (one with its first field quoted), an
\* empty line and a row of nine fields.
StandardRows ==
    [kind : {"plain", "quoted", "comment", "quoted_comment", "blank", "short"}]

StandardText(r) ==
    CASE r.kind = "plain" -> <<"F", "C", ",", "1", ",", "A", ",", ",", "A", "G", "T", ",", ",", ",", ",", ",", "P">> \o NL
      [] r.kind = "quoted" -> <<"\"", "F", "C", "\"", ",", "2", ",", "\"", "B", "\"", ",", ",", "\"", "A", "G", "T", "\"", ",", ",", ",", ",", ",", "\"", "P", "\"">> \o NL
      [] r.kind = "comment" -> <<"#", "F", "C", ",", "1", ",", "A", ",", ",", "A", "G", "T", ",", ",", ",", ",", ",", "P">> \o NL
      [] r.kind = "quoted_comment" -> <<"\"", "#", "F", "C", "\"", ",", "1", ",", "A", ",", ",", "A", "G", "T", ",", ",", ",", ",", ",", "P">> \o NL
      [] r.kind = "blank" -> NL
      [] r.kind = "short" -> <<"F", "C", ",", "1", ",", "A", ",", ",", "A", "G", "T", ",", ",", ",", ",", "P">> \o NL

StandardHeader ==
    <<"F", "C", "I", "D", ",", "L", "a", "n", "e", ",", "S", "a", "m", "p", "l", "e", "I", "D", ",", "S", "a", "m", "p", "l", "e", "R", "e", "f", ",", "I", "n", "d", "e", "x", ",", "D", "e", "s", "c", "r", "i", "p", "t", "i", "o", "n", ",", "C", "o", "n", "t", "r", "o", "l", ",", "R", "e", "c", "i", "p", "e", ",", "O", "p", "e", "r", "a", "t", "o", "r", ",", "S", "a", "m", "p", "l", "e", "P", "r", "o", "j", "e", "c", "t">>
    \o NL

Source(blank, first, pre, data, cols, rows) ==
    [blank |-> blank, first |-> first, pre |-> pre, data |-> data,
     cols |-> cols, rows |-> rows]

Sources ==
    { Source(b, "Header", p, TRUE, c, r) :
        b \in 0..MaxBlankLines, p \in BOOLEAN, c \in ColumnSets,
        r \in SeqsUpTo(SourceRows, MaxDataRows) }
    \cup { Source(b, "Header", p, FALSE, NoColumns, <<>>) :
             b \in 0..MaxBlankLines, p \in BOOLEAN }
    \cup { Source(b, f, FALSE, TRUE, NoColumns, r) :
             b \in 0..MaxBlankLines, f \in {"Reads", "Data"},
             r \in SeqsUpTo(SourceRows, 1) }
    \cup { Source(b, "Standard", FALSE, FALSE, NoColumns, r) :
             b \in 0..MaxBlankLines, r \in SeqsUpTo(StandardRows, MaxDataRows) }
    \cup { Source(b, f, FALSE, FALSE, NoColumns, <<>>) :
             b \in 0..MaxBlankLines, f \in {"Other", "Empty"} }

\* The [Data] line, the column names and the rows of a sectioned sheet.
DataSection(s) ==
    IF s.data
    THEN <<DataMark \o NL, TextLine(Columns(s.cols))>>
         \o [k \in 1..Len(s.rows) |-> TextLine(RowFields(s.cols, s.rows[k], k))]
    ELSE <<>>

StreamOf(s) ==
    [k \in 1..s.blank |-> NL]
    \o CASE s.first = "Header" ->
              <<HeaderMark \o NL>>
              \o (IF s.pre THEN <<<<"D", "a", "t", "e", ",", "1">> \o NL, <<"[", "R", "e", "a", "d", "s", "]">> \o NL>> ELSE <<>>)
              \o DataSection(s)
         [] s.first = "Reads" -> <<<<"[", "R", "e", "a", "d", "s", "]">> \o NL, <<"5", "0">> \o NL>> \o DataSection(s)
         [] s.first = "Data" -> DataSection(s)
         [] s.first = "Standard" ->
              <<StandardHeader>> \o [k \in 1..Len(s.rows) |-> StandardText(s.rows[k])]
         [] s.first = "Other" -> <<<<"n", "o", " ", "d", "e", "l", "i", "m", "i", "t", "e", "r">> \o NL>>
         [] s.first = "Empty" -> <<>>

---------------------------------------------------------------------------
(* get_casava_sample_sheet as a state machine                              *)

InitConvert ==
    /\ pc = "start"
    /\ src \in Sources
    /\ stream = StreamOf(src)
    /\ reads = 0
    /\ cur_line = <<>>
    /\ experiment_manager_format = "unset"
    /\ SheetIdle
    /\ CodecIdle
    /\ UniqueIdle
    /\ SampleIdle

\* line = sample_sheet_fp.readline() and the choice of the format.
ReadFirstLine ==
    /\ pc = "start"
    /\ cur_line' = ReadLine(stream, 0)
    /\ reads' = 1
    /\ IF StartsWith(cur_line', HeaderMark)
       THEN experiment_manager_format' = "True" /\ pc' = "skip"
       ELSE IF Contains(cur_line', ",")
            THEN experiment_manager_format' = "False" /\ pc' = "standard"
            ELSE experiment_manager_format' = experiment_manager_format
                 /\ pc' = "failed"
    /\ UNCHANGED <<src, stream, sheetVars, codecVars, uniqueVars, sampleVars>>

\* One turn of 'while not line.startswith('[Data]')'.
SkipLine ==
    /\ pc = "skip"
    /\ ~StartsWith(cur_line, DataMark)
    /\ reads < MaxReads
    /\ cur_line' = ReadLine(stream, reads)
    /\ reads' = reads + 1
    /\ UNCHANGED <<pc, src, stream, experiment_manager_format, sheetVars, codecVars, uniqueVars, sampleVars>>

\* The loop has found [Data]: the rest of the stream is read as a table with
\* a header line and every line of it becomes a line of the new sheet.
ConvertExperimentManager ==
    /\ pc = "skip"
    /\ StartsWith(cur_line, DataMark)
    /\ LET rest == SubSeq(stream, reads + 1, Len(stream))
           header == TabHeader(rest)
           rows == [k \in 1..Len(TabRows(rest)) |-> UnquoteRow(TabRows(rest)[k])]
       IN  IF rows # <<>> /\ ~(/\ HasCol(header, Sample_ID)
                               /\ HasCol(header, DescriptionCol)
                               /\ HasCol(header, Sample_Project))
           THEN sheet' = <<>> /\ pc' = "failed"
           ELSE /\ sheet' = [k \in 1..Len(rows) |->
                                ExperimentManagerLine(header, rows[k])]
                /\ pc' = "done"
    /\ UNCHANGED <<old, result, nfix, convVars, codecVars, uniqueVars, sampleVars>>

\* ConvertStandard passing over the rows that do not have ten fields and
\* returning the sheet of the others.
ConvertStandardPartial ==
    /\ pc = "standard"
    /\ LET rest == SubSeq(stream, reads + 1, Len(stream))
           rows == [k \in 1..Len(rest) |-> UnquoteRow(Fields(rest[k]))]
           good == SelectSeq(rows, LAMBDA r : SkippedRow(r) \/ Len(r) = 10)
       IN  sheet' = StandardLines(good, 1) /\ pc' = "done"
    /\ UNCHANGED <<old, result, nfix, convVars, codecVars, uniqueVars, sampleVars>>

\* The first line was a comma-delimited header: every line after it that is
\* neither commented nor blank is appended to the new sheet as it is.
ConvertStandard ==
    /\ pc = "standard"
    /\ LET rest == SubSeq(stream, reads + 1, Len(stream))
           rows == [k \in 1..Len(rest) |-> UnquoteRow(Fields(rest[k]))]
       IN  IF \E k \in 1..Len(rows) : ~SkippedRow(rows[k]) /\ Len(rows[k]) # 10
           THEN sheet' = <<>> /\ pc' = "failed"
           ELSE sheet' = StandardLines(rows, 1) /\ pc' = "done"
    /\ UNCHANGED <<old, result, nfix, convVars, codecVars, uniqueVars, sampleVars>>

NextConvert ==
    \/ ReadFirstLine
    \/ SkipLine
    \/ ConvertExperimentManager
    \/ ConvertStandard

SpecConvert == InitConvert /\ [][NextConvert]_vars

---------------------------------------------------------------------------
(* Properties of the conversion (checked under SpecConvert)                *)

\* The position of the first line of the stream that is not empty, 0 if
\* there is none.
FirstNonEmpty ==
    LET full == { k \in 1..Len(stream) : stream[k] # <<"\n">> }
    IN  IF full = {} THEN 0 ELSE CHOOSE k \in full : \A j \in full : k <= j

\* l begins with a bracketed section name.
Bracketed(l) == l # <<>> /\ l[1] = "[" /\ \E k \in 2..Len(l) : l[k] = "]"

\* l holds a comma.
Delimited(l) == \E k \in 1..Len(l) : l[k] = ","

\* C16: the format is decided from the first non-empty line of the stream:
\* sectioned if it begins with a bracketed section name, else standard with
\* that line as the header if it holds a comma, else the call fails without
\* a table; empty lines in front make no difference.
C16_FirstNonEmptyLine ==
    pc # "start" =>
        LET k == FirstNonEmpty
        IN  IF k # 0 /\ Bracketed(stream[k])
            THEN experiment_manager_format = "True"
            ELSE IF k # 0 /\ Delimited(stream[k])
                 THEN /\ experiment_manager_format = "False"
                      /\ pc = "standard" => cur_line = stream[k]
                 ELSE pc = "failed" /\ sheet = <<>>

\* C17: the skip to [Data] ends once the stream is exhausted: the function
\* is never found in the loop having called readline() again after the call
\* that returned the end of the stream.
C17_SkipEndsWithStream ==
    pc = "skip" => reads <= Len(stream) + 1

\* C18: a sectioned sheet is converted to one line per source row, in source
\* order, with the SampleID and Description of the row, the default FCID, the
\* Lane of the row if the sheet has a Lane column and 1 if not, and
\* SampleRef, Control, Recipe and Operator empty.
C18_SectionedRows ==
    (pc = "done" /\ experiment_manager_format = "True") =>
        /\ Len(sheet) = Len(src.rows)
        /\ \A k \in 1..Len(sheet) :
               /\ sheet[k].SampleID = src.rows[k].id
               /\ sheet[k].Description = <<"r">> \o src.rows[k].id
               /\ sheet[k].FCID = <<"F", "C", "1">>
               /\ sheet[k].Lane = (IF src.cols.lane THEN k + 1 ELSE 1)
               /\ sheet[k].SampleRef = <<>>
               /\ sheet[k].Control = <<>>
               /\ sheet[k].Recipe = <<>>
               /\ sheet[k].Operator = <<>>

\* C18 witness: a sheet with a Lane column and two rows, the first plain and
\* the second quoted, behind a leading section, was converted to two lines
\* with lanes 2 and 3.
C18_Witness ==
    /\ pc = "done"
    /\ experiment_manager_format = "True"
    /\ src.pre
    /\ src.cols.lane
    /\ Len(src.rows) = 2
    /\ ~src.rows[1].quoted
    /\ src.rows[2].quoted
    /\ Len(sheet) = 2
    /\ sheet[1].Lane = 2 /\ sheet[1].SampleID = <<"P", "B", "1">>
    /\ sheet[2].Lane = 3 /\ sheet[2].SampleID = <<"a", "2">>

\* C19 as claimed: Index is the index alone if the sheet has no index2
\* column, index and index2 joined by '-' if it has one, and empty only if
\* the sheet has neither an index nor an index2 column.
C19_IndexOrPair ==
    (pc = "done" /\ experiment_manager_format = "True") =>
        \A k \in 1..Len(sheet) :
            /\ (src.cols.index /\ ~src.cols.index2) => sheet[k].Index = <<"A", "T">>
            /\ (src.cols.index /\ src.cols.index2) => sheet[k].Index = <<"A", "T", "-", "G", "C">>
            /\ sheet[k].Index = <<>> => (~src.cols.index /\ ~src.cols.index2)

\* C19: Index is index and index2 joined by '-' if the sheet has both
\* columns, the index alone if it has an index column and no index2 column,
\* and empty whenever it has no index column, with or without index2.
C19_IndexColumnDecides ==
    (pc = "done" /\ experiment_manager_format = "True") =>
        \A k \in 1..Len(sheet) :
            /\ (src.cols.index /\ src.cols.index2) => sheet[k].Index = <<"A", "T", "-", "G", "C">>
            /\ (src.cols.index /\ ~src.cols.index2) => sheet[k].Index = <<"A", "T">>
            /\ ~src.cols.index => sheet[k].Index = <<>>

\* C19 witness: a sheet with both index columns and two rows was converted,
\* both lines carrying the pair.
C19_Witness ==
    /\ pc = "done"
    /\ experiment_manager_format = "True"
    /\ src.cols.index /\ src.cols.index2
    /\ Len(sheet) = 2
    /\ sheet[1].Index = <<"A", "T", "-", "G", "C">>
    /\ sheet[2].Index = <<"A", "T", "-", "G", "C">>

\* C20: SampleProject is the Sample_Project of the row if that is not blank,
\* and the initials of Sample_ID if it is empty or whitespace only.
C20_BlankProjectDerived ==
    (pc = "done" /\ experiment_manager_format = "True") =>
        \A k \in 1..Len(sheet) :
            IF Blank(src.rows[k].project)
            THEN sheet[k].SampleProject = src.rows[k].initials
            ELSE sheet[k].SampleProject = src.rows[k].project

---------------------------------------------------------------------------
(* Frame of fix_duplicated_names (checked under SpecSheet) and what        *)
(* fix_illegal_names does to identities (checked under SpecNames)          *)

\* Lines a and b agree on every field other than SampleID.
SameButSampleID(a, b) == [a EXCEPT !.SampleID = <<>>] = [b EXCEPT !.SampleID = <<>>]

\* C27: fix_duplicated_names leaves the number and the order of the lines,
\* every field other than SampleID and every line outside the duplicate
\* groups as they were; on a sheet without duplicates it changes nothing.
C27_FixDuplicatesFrame ==
    pc = "fix_duplicated_names" =>
        /\ Len(sheet) = Len(old)
        /\ \A r \in 1..Len(old) :
               /\ SameButSampleID(sheet[r], old[r])
               /\ ~IsDuplicated(old, r) => sheet[r] = old[r]
        /\ (\A r \in 1..Len(old) : ~IsDuplicated(old, r)) => sheet = old

\* C27 witness: of four lines two shared an identity and were renamed, the
\* two others were left alone.
C27_Witness ==
    /\ pc = "fix_duplicated_names"
    /\ Len(old) = 4
    /\ Cardinality({ r \in 1..4 : IsDuplicated(old, r) }) = 2
    /\ \A r \in 1..4 : IsDuplicated(old, r) <=> sheet[r].SampleID # old[r].SampleID
    /\ \A r \in 1..4 : ~IsDuplicated(old, r) => sheet[r] = old[r]

\* No two lines of t share an identity and no line has a blank SampleID or
\* SampleProject.
CleanIdentities(t) ==
    \A r \in 1..Len(t) :
        /\ ~IsDuplicated(t, r)
        /\ ~Blank(t[r].SampleID)
        /\ ~Blank(t[r].SampleProject)

\* C28 (as claimed): if no two lines share an identity and no name is blank
\* before fix_illegal_names, the same is true after it.
C28_RepairKeepsIdentities ==
    (pc = "fix_illegal_names" /\ CleanIdentities(old)) => CleanIdentities(sheet)

---------------------------------------------------------------------------
(* Properties of the standard-format conversion (checked under SpecConvert) *)

\* The line of the canonical table a source row of ten fields stands for:
\* its field values without their surrounding quotes.
CanonicalLine(r) ==
    IF r.kind = "plain"
    THEN [FCID |-> <<"F", "C">>, Lane |-> 1, SampleID |-> <<"A">>, SampleRef |-> <<>>,
          Index |-> <<"A", "G", "T">>, Description |-> <<>>, Control |-> <<>>,
          Recipe |-> <<>>, Operator |-> <<>>, SampleProject |-> <<"P">>]
    ELSE [FCID |-> <<"F", "C">>, Lane |-> 2, SampleID |-> <<"B">>, SampleRef |-> <<>>,
          Index |-> <<"A", "G", "T">>, Description |-> <<>>, Control |-> <<>>,
          Recipe |-> <<>>, Operator |-> <<>>, SampleProject |-> <<"P">>]

\* The source rows from k on that are neither blank nor commented, as lines
\* of the canonical table.
RECURSIVE CopiedRows(_, _)
CopiedRows(rows, k) ==
    IF k > Len(rows) THEN <<>>
    ELSE (IF rows[k].kind \in {"plain", "quoted"}
          THEN <<CanonicalLine(rows[k])>> ELSE <<>>)
         \o CopiedRows(rows, k + 1)

\* C21: the table converted from a standard sheet holds, in source order,
\* exactly the rows after the header that are neither blank nor commented
\* (first field beginning with '#' once its quotes are stripped), each with
\* its ten field values apart from the stripped quotes.
C21_StandardRowsCopied ==
    (pc = "done" /\ experiment_manager_format = "False") =>
        sheet = CopiedRows(src.rows, 1)

\* C21 witness: a quoted row and a plain row, in that order, were copied.
C21_Witness ==
    /\ pc = "done"
    /\ experiment_manager_format = "False"
    /\ Len(src.rows) = 2
    /\ src.rows[1].kind = "quoted"
    /\ src.rows[2].kind = "plain"
    /\ Len(sheet) = 2
    /\ sheet[1].SampleID = <<"B">> /\ sheet[1].FCID = <<"F", "C">>
    /\ sheet[2].SampleID = <<"A">>

---------------------------------------------------------------------------
(* get_unique_fastq_names                                                  *)

\* The templates, each as template.split() gives it.
templates ==
    << <<"NAME">>, <<"NAME", "LANE">>, <<"NAME", "TAG">>,
       <<"NAME", "TAG", "LANE">>, <<"FULL">> >>

FastqGz == <<".", "f", "a", "s", "t", "q", ".", "g", "z">>

\* got_R1 and got_R2 taken from the first file name only.
PairedEndOfFirst(fqs) ==
    /\ fqs # <<>>
    /\ IlluminaFastq(fqs[1]).read_number = 1
    /\ \E i \in 1..Len(fqs) : IlluminaFastq(fqs[i]).read_number = 2

\* paired_end = got_R1 and got_R2
PairedEndOf(fqs) ==
    /\ \E i \in 1..Len(fqs) : IlluminaFastq(fqs[i]).read_number = 1
    /\ \E i \in 1..Len(fqs) : IlluminaFastq(fqs[i]).read_number = 2

\* The parts of the name that the words of the template from k on append.
RECURSIVE TemplateParts(_, _, _)
TemplateParts(q, template, k) ==
    IF k > Len(template) THEN <<>>
    ELSE (CASE template[k] = "NAME" -> <<q.sample_name>>
            [] template[k] = "TAG" ->
                 IF q.barcode_sequence.isNone THEN <<>>
                 ELSE <<q.barcode_sequence.s>>
            [] template[k] = "LANE" -> <<<<"L">> \o Fmt03d(q.lane_number)>>
            [] OTHER -> <<>>)
         \o TemplateParts(q, template, k + 1)

\* ShortName with the read number on every name, paired or not.
ShortNameAlwaysRead(q, template, paired) ==
    IF template = <<"FULL">> THEN Repr(q) \o FastqGz
    ELSE Join(TemplateParts(q, template, 1) \o <<<<"R">> \o FmtD(q.read_number)>>,
              "_") \o FastqGz

\* The name one file gets under one template.
ShortName(q, template, paired) ==
    IF template = <<"FULL">> THEN Repr(q) \o FastqGz
    ELSE Join(TemplateParts(q, template, 1)
              \o (IF paired THEN <<<<"R">> \o FmtD(q.read_number)>> ELSE <<>>),
              "_") \o FastqGz

\* name in unique_names
InList(list, x) == \E k \in 1..Len(list) : list[k] = x

\* StoreNames storing every name, seen before or not.
RECURSIVE StoreNamesAll(_, _, _, _)
StoreNamesAll(fqs, template, paired, i) ==
    IF i = 0 THEN [name_mapping |-> <<>>, unique_names |-> <<>>]
    ELSE LET before == StoreNamesAll(fqs, template, paired, i - 1)
             name == ShortName(IlluminaFastq(fqs[i]), template, paired)
         IN  [name_mapping |-> (fqs[i] :> name) @@ before.name_mapping,
              unique_names |-> Append(before.unique_names, name)]

\* The loop over the file names for one template, after its first i turns:
\* the mapping and the list of names stored so far.
RECURSIVE StoreNames(_, _, _, _)
StoreNames(fqs, template, paired, i) ==
    IF i = 0 THEN [name_mapping |-> <<>>, unique_names |-> <<>>]
    ELSE LET before == StoreNames(fqs, template, paired, i - 1)
             name == ShortName(IlluminaFastq(fqs[i]), template, paired)
         IN  IF InList(before.unique_names, name) THEN before
             ELSE [name_mapping |-> (fqs[i] :> name) @@ before.name_mapping,
                   unique_names |-> Append(before.unique_names, name)]

\* TryTemplates returning the mapping of the first template, whatever the
\* number of names it stored.
TryTemplatesAny(fqs, paired, t) ==
    [err |-> "none", template |-> t,
     mapping |-> StoreNames(fqs, templates[t], paired, Len(fqs)).name_mapping]

\* The loop over the templates from t on: the first whose names are as many
\* as the files is returned, and after the last the call raises.
RECURSIVE TryTemplates(_, _, _)
TryTemplates(fqs, paired, t) ==
    IF t > Len(templates)
    THEN [err |-> "Exception", template |-> 0, mapping |-> <<>>]
    ELSE LET stored == StoreNames(fqs, templates[t], paired, Len(fqs))
         IN  IF Len(stored.unique_names) = Len(fqs)
             THEN [err |-> "none", template |-> t, mapping |-> stored.name_mapping]
             ELSE TryTemplates(fqs, paired, t + 1)

\* get_unique_fastq_names(fastqs): the first loop raises what IlluminaFastq
\* raises on the first name it cannot parse.
get_unique_fastq_names(fqs) ==
    IF \E i \in 1..Len(fqs) : IlluminaFastq(fqs[i]).err # "none"
    THEN LET i == CHOOSE i \in 1..Len(fqs) :
                      /\ IlluminaFastq(fqs[i]).err # "none"
                      /\ \A j \in 1..(i - 1) : IlluminaFastq(fqs[j]).err = "none"
         IN  [err |-> IlluminaFastq(fqs[i]).err, template |-> 0, mapping |-> <<>>]
    ELSE TryTemplates(fqs, PairedEndOf(fqs), 1)

---------------------------------------------------------------------------
(* File names handed to get_unique_fastq_names and to add_fastq            *)

\* Largest number of file names handed to get_unique_fastq_names.
MaxFastqs == 4

\* The file names with what they stand for: sample name, barcode ('' for
\* NoIndex), lane, read and set; the last but one has a path and an
\* extension, the last is not a fastq name.
FastqFiles ==
    <<
      [text |-> <<"A", "_", "A", "T", "C", "_", "L", "0", "0", "1", "_", "R", "1", "_", "0", "0", "1">>,
       name |-> <<"A">>, tag |-> <<"A", "T", "C">>, lane |-> 1, read |-> 1, set |-> 1,
       valid |-> TRUE],
      [text |-> <<"A", "_", "A", "T", "C", "_", "L", "0", "0", "1", "_", "R", "2", "_", "0", "0", "1">>,
       name |-> <<"A">>, tag |-> <<"A", "T", "C">>, lane |-> 1, read |-> 2, set |-> 1,
       valid |-> TRUE],
      [text |-> <<"A", "_", "A", "T", "C", "_", "L", "0", "0", "2", "_", "R", "1", "_", "0", "0", "1">>,
       name |-> <<"A">>, tag |-> <<"A", "T", "C">>, lane |-> 2, read |-> 1, set |-> 1,
       valid |-> TRUE],
      [text |-> <<"B", "_", "A", "T", "C", "_", "L", "0", "0", "1", "_", "R", "1", "_", "0", "0", "1">>,
       name |-> <<"B">>, tag |-> <<"A", "T", "C">>, lane |-> 1, read |-> 1, set |-> 1,
       valid |-> TRUE],
      [text |-> <<"A", "_", "A", "T", "C", "_", "L", "0", "0", "1", "_", "R", "1", "_", "0", "0", "2">>,
       name |-> <<"A">>, tag |-> <<"A", "T", "C">>, lane |-> 1, read |-> 1, set |-> 2,
       valid |-> TRUE],
      [text |-> <<"A", "_", "N", "o", "I", "n", "d", "e", "x", "_", "L", "0", "0", "1", "_", "R", "1", "_", "0", "0", "1">>,
       name |-> <<"A">>, tag |-> <<>>, lane |-> 1, read |-> 1, set |-> 1,
       valid |-> TRUE],
      [text |-> <<"d", "/", "A", "_", "A", "T", "C", "_", "L", "0", "0", "1", "_", "R", "1", "_", "0", "0", "1", ".", "f", "a", "s", "t", "q", ".", "g", "z">>,
       name |-> <<"A">>, tag |-> <<"A", "T", "C">>, lane |-> 1, read |-> 1, set |-> 1,
       valid |-> TRUE],
      [text |-> <<"R", "E", "A", "D", "M", "E">>,
       name |-> <<>>, tag |-> <<>>, lane |-> 0, read |-> 0, set |-> 0,
       valid |-> FALSE] >>

FastqNames == { FastqFiles[k].text : k \in 1..Len(FastqFiles) }

\* The sequences of at most n elements of S without a repeated element.
DistinctSeqsUpTo(S, n) ==
    { q \in SeqsUpTo(S, n) : \A i, j \in 1..Len(q) : i # j => q[i] # q[j] }

\* Lists of distinct names in every order, and lists naming one file twice.
FastqLists ==
    DistinctSeqsUpTo(FastqNames, MaxFastqs)
    \cup { <<f, f>> : f \in FastqNames }

InitUnique ==
    /\ pc = "fastqs"
    /\ fastqs \in FastqLists
    /\ name_mapping = <<>>
    /\ SheetIdle
    /\ CodecIdle
    /\ ConvIdle
    /\ SampleIdle

\* name_mapping = get_unique_fastq_names(fastqs)
GetUniqueFastqNames ==
    /\ pc = "fastqs"
    /\ name_mapping' = get_unique_fastq_names(fastqs)
    /\ pc' = IF name_mapping'.err = "none" THEN "returned" ELSE "raised"
    /\ UNCHANGED <<fastqs, sheetVars, codecVars, convVars, sampleVars>>

NextUnique == GetUniqueFastqNames

SpecUnique == InitUnique /\ [][NextUnique]_vars

---------------------------------------------------------------------------
(* Properties of get_unique_fastq_names                                    *)

\* What a file name stands for.
FileOf(text) ==
    FastqFiles[CHOOSE k \in 1..Len(FastqFiles) : FastqFiles[k].text = text]

InputNames == { fastqs[i] : i \in 1..Len(fastqs) }

AllValid == \A f \in InputNames : FileOf(f).valid

AllDistinct == \A i, j \in 1..Len(fastqs) : i # j => fastqs[i] # fastqs[j]

\* The set holds a read-1 file and a read-2 file.
SetPaired ==
    /\ \E f \in InputNames : FileOf(f).read = 1
    /\ \E f \in InputNames : FileOf(f).read = 2

LaneText(file) == <<"L">> \o Fmt03d(file.lane)

ReadText(file) == <<"R">> \o FmtD(file.read)

\* The components template number t asks for, in the order NAME, TAG, LANE.
Components(file, t) ==
    <<file.name>>
    \o (IF t \in {3, 4} /\ file.tag # <<>> THEN <<file.tag>> ELSE <<>>)
    \o (IF t \in {2, 4} THEN <<LaneText(file)>> ELSE <<>>)

\* The canonical form of a file name.
CanonicalName(file) ==
    Join(<<file.name, IF file.tag = <<>> THEN <<"N", "o", "I", "n", "d", "e", "x">> ELSE file.tag,
           LaneText(file), ReadText(file), Fmt03d(file.set)>>, "_")

\* The rendering of a file under template number t.
Rendering(file, t) ==
    IF t = 5 THEN CanonicalName(file) \o <<".", "f", "a", "s", "t", "q", ".", "g", "z">>
    ELSE Join(Components(file, t)
              \o (IF SetPaired THEN <<ReadText(file)>> ELSE <<>>), "_")
         \o <<".", "f", "a", "s", "t", "q", ".", "g", "z">>

\* Template number t renders the input names pairwise distinct.
Injective(t) ==
    \A i, j \in 1..Len(fastqs) :
        i # j => Rendering(FileOf(fastqs[i]), t) # Rendering(FileOf(fastqs[j]), t)

\* C23: whenever get_unique_fastq_names returns a mapping, the mapping has an
\* entry for every input file name and for nothing else, and no two input
\* names have the same alias.
C23_TotalAndInjective ==
    pc = "returned" =>
        /\ DOMAIN name_mapping.mapping = InputNames
        /\ \A f, g \in InputNames :
               f # g => name_mapping.mapping[f] # name_mapping.mapping[g]

\* C23 witness: three names got three aliases under NAME TAG LANE.
C23_Witness ==
    /\ pc = "returned"
    /\ Len(fastqs) = 3
    /\ name_mapping.template = 4
    /\ Cardinality({ name_mapping.mapping[f] : f \in InputNames }) = 3

\* C24: for valid, mutually distinct file names get_unique_fastq_names
\* returns a mapping and never raises.
C24_ValidNeverFails ==
    (pc # "fastqs" /\ AllValid /\ AllDistinct) => pc = "returned"

\* C25: the mapping returned is the rendering of the input names under the
\* first template, in the order NAME, NAME LANE, NAME TAG, NAME TAG LANE,
\* FULL, that renders them pairwise distinct; every earlier template renders
\* two names alike, and the call raises on valid names only when every
\* template does.
C25_FirstInjectiveTemplate ==
    /\ pc = "returned" =>
           /\ name_mapping.template \in 1..5
           /\ Injective(name_mapping.template)
           /\ \A u \in 1..(name_mapping.template - 1) : ~Injective(u)
           /\ \A f \in InputNames :
                  name_mapping.mapping[f]
                      = Rendering(FileOf(f), name_mapping.template)
    /\ (pc = "raised" /\ AllValid) => \A u \in 1..5 : ~Injective(u)

\* C25 witness: lanes 1 and 2 with reads 1 and 2 of one sample resolve to
\* NAME LANE with the read number.
C25_Witness ==
    /\ pc = "returned"
    /\ InputNames = {<<"A", "_", "A", "T", "C", "_", "L", "0", "0", "1", "_", "R", "1", "_", "0", "0", "1">>, <<"A", "_", "A", "T", "C", "_", "L", "0", "0", "1", "_", "R", "2", "_", "0", "0", "1">>,
                     <<"A", "_", "A", "T", "C", "_", "L", "0", "0", "2", "_", "R", "1", "_", "0", "0", "1">>}
    /\ name_mapping.template = 2
    /\ name_mapping.mapping[<<"A", "_", "A", "T", "C", "_", "L", "0", "0", "1", "_", "R", "1", "_", "0", "0", "1">>] = <<"A", "_", "L", "0", "0", "1", "_", "R", "1", ".", "f", "a", "s", "t", "q", ".", "g", "z">>
    /\ name_mapping.mapping[<<"A", "_", "A", "T", "C", "_", "L", "0", "0", "1", "_", "R", "2", "_", "0", "0", "1">>] = <<"A", "_", "L", "0", "0", "1", "_", "R", "2", ".", "f", "a", "s", "t", "q", ".", "g", "z">>
    /\ name_mapping.mapping[<<"A", "_", "A", "T", "C", "_", "L", "0", "0", "2", "_", "R", "1", "_", "0", "0", "1">>] = <<"A", "_", "L", "0", "0", "2", "_", "R", "1", ".", "f", "a", "s", "t", "q", ".", "g", "z">>

\* The alias of a file: its components joined with '_', then the read number
\* when withRead, then the extension.
AliasOf(file, t, withRead) ==
    LET components == Join(Components(file, t), "_")
    IN  components
        \o (IF withRead THEN <<"_">> \o ReadText(file) ELSE <<>>)
        \o <<".", "f", "a", "s", "t", "q", ".", "g", "z">>

\* C26: under a template other than FULL the alias of every file is its
\* components joined with '_' in the order NAME, TAG, LANE (no TAG for a
\* file without barcode, the lane as L%03d), then _R<read> exactly when the
\* set holds a read-1 file and a read-2 file, then '.fastq.gz'.
C26_AliasRendering ==
    (pc = "returned" /\ name_mapping.template # 5) =>
        \A f \in InputNames :
            name_mapping.mapping[f]
                = AliasOf(FileOf(f), name_mapping.template, SetPaired)

\* C26 witness: a paired set with a file without barcode, under NAME TAG.
C26_Witness ==
    /\ pc = "returned"
    /\ name_mapping.template = 3
    /\ InputNames = {<<"A", "_", "A", "T", "C", "_", "L", "0", "0", "1", "_", "R", "1", "_", "0", "0", "1">>, <<"A", "_", "A", "T", "C", "_", "L", "0", "0", "1", "_", "R", "2", "_", "0", "0", "1">>,
                     <<"A", "_", "N", "o", "I", "n", "d", "e", "x", "_", "L", "0", "0", "1", "_", "R", "1", "_", "0", "0", "1">>}
    /\ name_mapping.mapping[<<"A", "_", "N", "o", "I", "n", "d", "e", "x", "_", "L", "0", "0", "1", "_", "R", "1", "_", "0", "0", "1">>] = <<"A", "_", "R", "1", ".", "f", "a", "s", "t", "q", ".", "g", "z">>
    /\ name_mapping.mapping[<<"A", "_", "A", "T", "C", "_", "L", "0", "0", "1", "_", "R", "2", "_", "0", "0", "1">>] = <<"A", "_", "A", "T", "C", "_", "R", "2", ".", "f", "a", "s", "t", "q", ".", "g", "z">>

\* The input names in the order of the table of file names.
TableOrder ==
    SelectSeq([k \in 1..Len(FastqFiles) |-> FastqFiles[k].text],
              LAMBDA x : x \in InputNames)

\* What a caller sees of a call: whether it returned, and what.
Outcome(r) ==
    [returned |-> r.err = "none", template |-> r.template,
     mapping |-> r.mapping]

\* C29: for mutually distinct file names the outcome of
\* get_unique_fastq_names is that of the same names in one fixed order: two
\* orders of the same names both raise or both return the same mapping.
C29_OrderIndependent ==
    (pc # "fastqs" /\ AllDistinct) =>
        Outcome(name_mapping) = Outcome(get_unique_fastq_names(TableOrder))

\* C29 witness: a paired set given with the read-2 file first got a mapping.
C29_Witness ==
    /\ pc = "returned"
    /\ Len(fastqs) = 3
    /\ fastqs # TableOrder
    /\ FileOf(fastqs[1]).read = 2
    /\ name_mapping.mapping[fastqs[1]] = <<"A", "_", "L", "0", "0", "1", "_", "R", "2", ".", "f", "a", "s", "t", "q", ".", "g", "z">>

---------------------------------------------------------------------------
(* Calls of get_casava_sample_sheet and of get_unique_fastq_names          *)

InitErrors == InitConvert \/ InitUnique

NextErrors == NextConvert \/ NextUnique

SpecErrors == InitErrors /\ [][NextErrors]_vars

\* A file name of the list cannot be parsed.
BadName == \E f \in InputNames : ~FileOf(f).valid

\* A row of the standard sheet does not have the ten fields.
BadRow ==
    /\ src.first = "Standard"
    /\ \E k \in 1..Len(src.rows) : src.rows[k].kind = "short"

\* C22: a call of get_unique_fastq_names with a file name that cannot be
\* parsed raises and gives no mapping, and a call of get_casava_sample_sheet
\* on a standard sheet with a row that does not split into the ten fields
\* fails and gives no sheet, wherever the name or the row stands and
\* whatever comes before it.
C22_ErrorsAreTerminal ==
    /\ (pc \in {"returned", "raised"} /\ BadName) =>
           pc = "raised" /\ name_mapping.mapping = <<>>
    /\ (pc \in {"done", "failed"} /\ BadRow) =>
           pc = "failed" /\ sheet = <<>>

\* C22 witness: the conversion failed on a sheet whose second row is the
\* one with nine fields, after a row of ten.
C22_Witness ==
    /\ pc = "failed"
    /\ experiment_manager_format = "False"
    /\ src.first = "Standard"
    /\ Len(src.rows) = 2
    /\ src.rows[1].kind = "plain"
    /\ src.rows[2].kind = "short"
    /\ sheet = <<>>

---------------------------------------------------------------------------
(* IlluminaSample: add_fastq                                               *)

\* Largest number of add_fastq calls on one sample.
MaxAdds == 3

\* The characters of the file names in the order of their codes.
AsciiOrder ==
    <<".", "/">> \o DigitChars \o UpperCase \o <<"_">> \o LowerCase

Ord(c) == CHOOSE k \in 1..Len(AsciiOrder) : AsciiOrder[k] = c

\* a < b for two strings that agree before position k.
RECURSIVE StrLess(_, _, _)
StrLess(a, b, k) ==
    IF k > Len(a) THEN k <= Len(b)
    ELSE IF k > Len(b) THEN FALSE
    ELSE IF a[k] = b[k] THEN StrLess(a, b, k + 1)
    ELSE Ord(a[k]) < Ord(b[k])

\* x put into a sorted list, after the elements equal to it.
RECURSIVE Insert(_, _)
Insert(sorted, x) ==
    IF sorted = <<>> THEN <<x>>
    ELSE IF StrLess(x, Head(sorted), 1) THEN <<x>> \o sorted
    ELSE <<Head(sorted)>> \o Insert(Tail(sorted), x)

\* The list left as it is.
Unsorted(list) == list

\* list.sort()
RECURSIVE Sort(_)
Sort(list) ==
    IF list = <<>> THEN <<>>
    ELSE Insert(Sort(SubSeq(list, 1, Len(list) - 1)), list[Len(list)])

\* IlluminaSample(dirn) on a directory without fastq.gz files.
InitSample ==
    /\ pc = "sample"
    /\ sample_fastq = <<>>
    /\ paired_end = FALSE
    /\ added = <<>>
    /\ SheetIdle
    /\ CodecIdle
    /\ ConvIdle
    /\ UniqueIdle

\* add_fastq(f): the name is appended and the list sorted before the name
\* is parsed, and it is parsed only while paired_end is false; when the
\* constructor of IlluminaFastq raises, paired_end is left as it was.
AddFastq(f) ==
    /\ pc = "sample"
    /\ Len(added) < MaxAdds
    /\ added' = Append(added, f)
    /\ sample_fastq' = Sort(Append(sample_fastq, f))
    /\ paired_end' =
           IF paired_end THEN TRUE
           ELSE /\ IlluminaFastq(f).err = "none"
                /\ IlluminaFastq(f).read_number = 2
    /\ UNCHANGED <<pc, sheetVars, codecVars, convVars, uniqueVars>>

NextSample == \E f \in FastqNames : AddFastq(f)

SpecSample == InitSample /\ [][NextSample]_vars

---------------------------------------------------------------------------
(* Properties of add_fastq (checked under SpecSample)                      *)

\* How many times x stands in list.
Times(list, x) == Cardinality({ k \in 1..Len(list) : list[k] = x })

\* C30: after any sequence of add_fastq calls paired_end is true exactly
\* when one of the names added so far parses with read number 2 (so it
\* never goes back to false as names are added), and the fastq list holds
\* the names added, each as often as it was added, in sorted order.
C30_PairedAndSorted ==
    pc = "sample" =>
        /\ paired_end <=>
               \E k \in 1..Len(added) :
                   FileOf(added[k]).valid /\ FileOf(added[k]).read = 2
        /\ \A f \in FastqNames : Times(sample_fastq, f) = Times(added, f)
        /\ \A i \in 1..(Len(sample_fastq) - 1) :
               ~StrLess(sample_fastq[i + 1], sample_fastq[i], 1)

\* C30 witness: a name with a path, then a read-2 name, then a name that
\* does not parse were added; the list is sorted and the sample is paired.
C30_Witness ==
    /\ pc = "sample"
    /\ added = <<<<"d", "/", "A", "_", "A", "T", "C", "_", "L", "0", "0", "1", "_", "R", "1", "_", "0", "0", "1", ".", "f", "a", "s", "t", "q", ".", "g", "z">>, <<"A", "_", "A", "T", "C", "_", "L", "0", "0", "1", "_", "R", "2", "_", "0", "0", "1">>,
                 <<"R", "E", "A", "D", "M", "E">>>>
    /\ sample_fastq = <<<<"A", "_", "A", "T", "C", "_", "L", "0", "0", "1", "_", "R", "2", "_", "0", "0", "1">>, <<"R", "E", "A", "D", "M", "E">>,
                        <<"d", "/", "A", "_", "A", "T", "C", "_", "L", "0", "0", "1", "_", "R", "1", "_", "0", "0", "1", ".", "f", "a", "s", "t", "q", ".", "g", "z">>>>
    /\ paired_end

=============================================================================
